---- MODULE Spec2Model ----
(***************************************************************************)
(* Model of the scripts under Code/:                                       *)
(*   - ErrorHandling.py : the Spark error-handling driver main() and its   *)
(*     helpers create_spark_session, read_csv_handle_exceptions,           *)
(*     safe_distinct_count and run_sql_query;                              *)
(*   - Employee_ETL.py  : the pandas CSV merge script.                     *)
(* The Spark session, the file system and pandas are the environment: the  *)
(* outcome of each library call is a nondeterministic choice over what the *)
(* library can answer (a value, or an exception of some class and text).   *)
(* Each script is a process of its own: SpecErrorHandling is a run of the  *)
(* first, SpecETL a run of the second. SQLite.py is a straight line of     *)
(* sqlite3 calls and is not modelled.                                      *)
(***************************************************************************)
EXTENDS Integers, Sequences, FiniteSets, TLC

VARIABLES
    \* ---- ErrorHandling.py ----
    pc,             \* the next statement of main() ("exited" once the process ended)
    session,        \* "none" | "active" | "stopped": the SparkSession handle
    exitCode,       \* the process exit status, Running until the process ends
    readOutcome,    \* what spark.read.csv answered (NoCall before the read)
    readResult,     \* what read_csv_handle_exceptions answered (NoCall before)
    df,             \* the DataFrame main() holds (NoDf before a successful read)
    distinctResult, \* what safe_distinct_count answered (NoCall before)
    sqlOutcome,     \* what the last spark.sql answered (NoCall before)
    sqlResult,      \* what the last run_sql_query answered (NoCall before)
    result,         \* main()'s variable result (None or a DataFrame)
    uncaught,       \* the exception that ended the process unhandled (NoExc if none)
    stdout,         \* the lines printed so far, oldest first
    dfOps,          \* the DataFrame operations run so far, oldest first
    \* ---- Employee_ETL.py ----
    epc,            \* the next statement of the script ("done" | "aborted" at the end)
    cow,            \* whether the pandas build runs with Copy-on-Write
    disk,           \* the CSV files glob discovers, in discovery order
    files,          \* the list files
    dataframes,     \* the list dataframes
    standardized_dfs, \* the list standardized_dfs
    loopIdx,        \* index in dataframes of the transform loop's current df
    master_df,      \* the concatenated frame (NoDf before the concat)
    written,        \* the content of clean_employee_master.csv (NotWritten before)
    etlError        \* the exception that aborted the script (NoExc if none)

ehVars == <<pc, session, exitCode, readOutcome, readResult, df, distinctResult,
            sqlOutcome, sqlResult, result, uncaught, stdout, dfOps>>
etlVars == <<epc, cow, disk, files, dataframes, standardized_dfs, loopIdx,
             master_df, written, etlError>>
vars == <<ehVars, etlVars>>

\* ------------------------------------------------------------------ bounds
\* Longest dataset (rows) spark.read.csv hands to main().
MaxRows == 3
\* Most CSV files the glob pattern matches.
MaxFiles == 2
\* Most data rows of the CSV files together.
MaxCsvRows == 2

\* ------------------------------------------------------------ common values
Null == "null"          \* a missing value (None / NaN)
None == [none |-> TRUE]  \* Python's None as a value
NoExc == [cls |-> "none", msg |-> <<>>, hasDesc |-> FALSE]
NoDf == [columns |-> <<>>, rows |-> <<>>]
Running == 0 - 1

\* What a call answers: it returns a value or raises an exception; out are the
\* lines it printed and ops the DataFrame operations it started.
Return(v, out, ops) == [kind |-> "return", value |-> v, exc |-> NoExc, out |-> out, ops |-> ops]
Raise(e, out, ops) == [kind |-> "raise", value |-> None, exc |-> e, out |-> out, ops |-> ops]
NoCall == [kind |-> "nocall", value |-> None, exc |-> NoExc, out |-> <<>>, ops |-> <<>>]

Range(s) == {s[i] : i \in 1..Len(s)}
SeqsUpTo(S, n) == UNION {[1..k -> S] : k \in 0..n}

\* ------------------------------------------------- Python exception classes
\* The base class of each exception class the script imports, raises or catches.
Parent(cls) ==
    CASE cls = "FileNotFoundError" -> "OSError"
      [] cls = "OSError" -> "Exception"
      [] cls = "ValueError" -> "Exception"
      [] cls = "KeyError" -> "Exception"
      [] cls = "TypeError" -> "Exception"
      [] cls = "AttributeError" -> "Exception"
      [] cls = "RuntimeError" -> "Exception"
      [] cls = "Py4JJavaError" -> "Exception"
      [] cls = "AnalysisException" -> "PySparkException"
      [] cls = "ParseException" -> "AnalysisException"
      [] cls = "PySparkException" -> "Exception"
      [] cls = "Exception" -> "BaseException"
      [] cls = "SystemExit" -> "BaseException"
      [] OTHER -> "object"

RECURSIVE IsInstance(_, _)
\* Whether `except handler` catches an exception of class cls.
IsInstance(cls, handler) ==
    IF cls = handler THEN TRUE
    ELSE IF cls = "object" THEN FALSE
    ELSE IsInstance(Parent(cls), handler)

\* ------------------------------------------------------------ message texts
\* A message is a sequence of text fragments; str.startswith and `in` work on
\* it as they do on the characters.
StartsWith(msg, prefix) ==
    /\ Len(msg) >= Len(prefix)
    /\ SubSeq(msg, 1, Len(prefix)) = prefix

Contains(msg, part) ==
    \E i \in 1..(Len(msg) - Len(part) + 1) : SubSeq(msg, i, i + Len(part) - 1) = part

file_path == "hdfs:///user/data/customers.csv"

StoppedText == <<"Cannot call methods on a stopped SparkContext">>
PathPrefix == <<"'", "Path does not exist:">>

\* ============================================================ ErrorHandling.py
\* ------------------------------------------------------------------ datasets
\* A dataset is an ordered collection of rows, each a mapping from column name
\* to a scalar. The first column takes its values from Values, the others are
\* constant: the script only ever inspects one column.
Values == {"a", "b", Null}
ColumnLists == {<<"customer_id", "age">>, <<"name", "age">>}
MkRow(cols, v) == [k \in Range(cols) |-> IF k = cols[1] THEN v ELSE "40"]
MkDataset(cols, vs) == [columns |-> cols, rows |-> [i \in 1..Len(vs) |-> MkRow(cols, vs[i])]]
Datasets == {MkDataset(c, vs) : c \in ColumnLists, vs \in SeqsUpTo(Values, MaxRows)}

\* df.select(column_name): the projection on one column.
select(d, column_name) ==
    [columns |-> <<column_name>>,
     rows |-> [i \in 1..Len(d.rows) |-> [k \in {column_name} |-> d.rows[i][k]]]]

RECURSIVE Dedup(_, _)
\* rows with every row equal to an earlier one dropped; seen are the earlier rows.
Dedup(rows, seen) ==
    IF rows = <<>> THEN <<>>
    ELSE IF Head(rows) \in seen THEN Dedup(Tail(rows), seen)
    ELSE <<Head(rows)>> \o Dedup(Tail(rows), seen \cup {Head(rows)})

RECURSIVE DedupDropNull(_, _)
\* Dedup that also drops every row holding a null (COUNT(DISTINCT col) semantics).
DedupDropNull(rows, seen) ==
    IF rows = <<>> THEN <<>>
    ELSE IF Head(rows) \in seen \/ (\E k \in DOMAIN Head(rows) : Head(rows)[k] = Null)
         THEN DedupDropNull(Tail(rows), seen)
    ELSE <<Head(rows)>> \o DedupDropNull(Tail(rows), seen \cup {Head(rows)})

\* distinct() with COUNT(DISTINCT col) semantics.
distinct_dropping_nulls(d) == [columns |-> d.columns, rows |-> DedupDropNull(d.rows, {})]

\* DataFrame.distinct(): duplicate rows removed; two rows are duplicates when
\* they agree on every column, a null agreeing with a null.
distinct(d) == [columns |-> d.columns, rows |-> Dedup(d.rows, {})]

\* DataFrame.count(): the number of rows.
count(d) == Len(d.rows)

\* ------------------------------------------------- what the library answers
\* The exception a failed Spark job or a call on a lost session raises.
JobFailure ==
    [cls |-> "Py4JJavaError",
     msg |-> <<"An error occurred while calling", "org.apache.spark.SparkException: Job aborted">>,
     hasDesc |-> FALSE]

\* spark.read.csv(file_path, ...): a DataFrame, or one of the failures of the
\* reader. The text of an AnalysisException depends on the PySpark release:
\* repr of the description up to 2.4 ("'Path does not exist: ...;'"), the
\* error-class form from 3.4 ("[PATH_NOT_FOUND] Path does not exist: ...").
ReadFailures ==
    { [cls |-> "Py4JJavaError",
       msg |-> <<"An error occurred while calling", "Cannot call methods on a stopped SparkContext">>,
       hasDesc |-> FALSE],
      [cls |-> "Py4JJavaError",
       msg |-> <<"An error occurred while calling", "java.io.IOException: Connection refused">>,
       hasDesc |-> FALSE],
      [cls |-> "AnalysisException",
       msg |-> <<"'", "Path does not exist:", file_path, ";'">>, hasDesc |-> TRUE],
      [cls |-> "AnalysisException",
       msg |-> <<"[PATH_NOT_FOUND]", "Path does not exist:", file_path>>, hasDesc |-> TRUE],
      [cls |-> "AnalysisException",
       msg |-> <<"[UNABLE_TO_INFER_SCHEMA]", "Unable to infer schema for CSV">>, hasDesc |-> TRUE],
      [cls |-> "RuntimeError",
       msg |-> <<"Java gateway process exited">>, hasDesc |-> FALSE] }

ReadOutcomes ==
    {Return(d, <<>>, <<>>) : d \in Datasets} \cup {Raise(e, <<>>, <<>>) : e \in ReadFailures}

\* spark.sql(query): a DataFrame (here d, its rows play no part), or a failure.
\* A PySparkException raised by a classic session carries desc; the ones of a
\* Spark Connect session do not. Py4JJavaError is py4j's class, no PySparkException.
SqlFailures ==
    { [cls |-> "AnalysisException",
       msg |-> <<"[TABLE_OR_VIEW_NOT_FOUND]", "The table or view cannot be found">>, hasDesc |-> TRUE],
      [cls |-> "ParseException",
       msg |-> <<"[PARSE_SYNTAX_ERROR]", "Syntax error at or near">>, hasDesc |-> TRUE],
      [cls |-> "AnalysisException",
       msg |-> <<"[TABLE_OR_VIEW_NOT_FOUND]", "The table or view cannot be found">>, hasDesc |-> FALSE],
      [cls |-> "Py4JJavaError",
       msg |-> <<"An error occurred while calling", "Cannot call methods on a stopped SparkContext">>,
       hasDesc |-> FALSE] }

SqlOutcomes(d) ==
    {Return(d, <<>>, <<>>)} \cup {Raise(e, <<>>, <<>>) : e \in SqlFailures}

\* ------------------------------------------------------------ the functions
\* read_csv_handle_exceptions(spark, file_path), given what spark.read.csv answered.
read_csv_handle_exceptions(o, path) ==
    IF o.kind = "return" THEN o
    ELSE IF IsInstance(o.exc.cls, "Py4JJavaError") THEN
        IF Contains(o.exc.msg, StoppedText)
        THEN Raise([cls |-> "Exception",
                    msg |-> <<"Spark session has been stopped. Please restart it.">>,
                    hasDesc |-> FALSE], <<>>, <<>>)
        ELSE o
    ELSE IF IsInstance(o.exc.cls, "AnalysisException") THEN
        IF StartsWith(o.exc.msg, PathPrefix)
        THEN Raise([cls |-> "FileNotFoundError",
                    msg |-> <<"File path does not exist:", path>>, hasDesc |-> FALSE], <<>>, <<>>)
        ELSE o
    ELSE o

\* safe_distinct_count(df, column_name); job is whether the Spark job the count
\* starts succeeds ("ok") or fails ("fail").
\* safe_distinct_count without its column test: the select of a column the
\* dataset lacks raises.
safe_distinct_count_unguarded(d, column_name, job) ==
    IF column_name \in Range(d.columns) THEN
        IF job = "ok"
        THEN Return(count(distinct(select(d, column_name))), <<>>, <<"select", "distinct", "count">>)
        ELSE Raise(JobFailure, <<>>, <<"select", "distinct", "count">>)
    ELSE Raise([cls |-> "AnalysisException",
                msg |-> <<"[UNRESOLVED_COLUMN]", column_name>>, hasDesc |-> TRUE], <<>>, <<"select">>)

safe_distinct_count(d, column_name, job) ==
    IF column_name \in Range(d.columns) THEN
        IF job = "ok"
        THEN Return(count(distinct(select(d, column_name))), <<>>, <<"select", "distinct", "count">>)
        ELSE Raise(JobFailure, <<>>, <<"select", "distinct", "count">>)
    ELSE Return(0, << <<"Warning: Column", column_name, "not found. Returning count=0.">> >>, <<>>)

\* run_sql_query(spark, query), given what spark.sql(query) answered.
run_sql_query(o) ==
    IF o.kind = "return" THEN o
    ELSE IF IsInstance(o.exc.cls, "PySparkException") THEN
        IF o.exc.hasDesc
        THEN Return(None, << <<"SQL error:">> \o o.exc.msg >>, <<>>)
        ELSE Raise([cls |-> "AttributeError",
                    msg |-> <<"object has no attribute", "desc">>, hasDesc |-> FALSE], <<>>, <<>>)
    ELSE o

\* ------------------------------------------------------------------- main()
\* An exception nothing catches ends the process: the interpreter prints the
\* traceback and exits with status 1. Nothing stops the session on that path.
Crash(e) ==
    /\ uncaught' = e
    /\ exitCode' = 1
    /\ pc' = "exited"

\* A library call of main() outside any try: it runs op and main() goes on to
\* next, or it raises and the process ends.
LibCall(next, op) ==
    /\ \/ /\ dfOps' = Append(dfOps, op)
          /\ pc' = next
          /\ UNCHANGED <<exitCode, uncaught>>
       \/ /\ Crash(JobFailure)
          /\ UNCHANGED dfOps
    /\ UNCHANGED <<session, readOutcome, readResult, df, distinctResult, sqlOutcome,
                   sqlResult, result, stdout>>
    /\ UNCHANGED etlVars

\* create_spark_session(): getOrCreate() answers a session, or raises and the
\* handler prints and calls sys.exit(1).
CreateSparkSession ==
    /\ pc = "create_spark_session"
    /\ \/ /\ session' = "active"
          /\ pc' = "read"
          /\ UNCHANGED <<exitCode, stdout>>
       \/ /\ stdout' = Append(stdout, <<"Failed to create Spark session:">>)
          /\ exitCode' = 1
          /\ pc' = "exited"
          /\ UNCHANGED session
    /\ UNCHANGED <<readOutcome, readResult, df, distinctResult, sqlOutcome, sqlResult,
                   result, uncaught, dfOps>>
    /\ UNCHANGED etlVars

\* The try block around the read, with its two handlers.
ReadCsv ==
    /\ pc = "read"
    /\ \E o \in ReadOutcomes :
         LET r == read_csv_handle_exceptions(o, file_path) IN
         /\ readOutcome' = o
         /\ readResult' = r
         /\ IF r.kind = "return" THEN
                /\ df' = r.value
                /\ pc' = "printSchema"
                /\ UNCHANGED <<session, exitCode, uncaught, stdout>>
            ELSE IF IsInstance(r.exc.cls, "FileNotFoundError") THEN
                /\ stdout' = Append(stdout, <<"File error:">> \o r.exc.msg)
                /\ session' = "stopped"
                /\ exitCode' = 2
                /\ pc' = "exited"
                /\ UNCHANGED <<df, uncaught>>
            ELSE IF IsInstance(r.exc.cls, "Exception") THEN
                /\ stdout' = Append(stdout, <<"Error reading CSV:">> \o r.exc.msg)
                /\ session' = "stopped"
                /\ exitCode' = 3
                /\ pc' = "exited"
                /\ UNCHANGED <<df, uncaught>>
            ELSE
                /\ Crash(r.exc)
                /\ UNCHANGED <<session, df, stdout>>
    /\ UNCHANGED <<distinctResult, sqlOutcome, sqlResult, result, dfOps>>
    /\ UNCHANGED etlVars

\* df.printSchema()
PrintSchema ==
    /\ pc = "printSchema"
    /\ LibCall("show", "printSchema")

\* df.show(5)
Show ==
    /\ pc = "show"
    /\ LibCall("safe_distinct_count", "show")

\* unique_customer_count = safe_distinct_count(df, "customer_id") and the print.
SafeDistinctCount ==
    /\ pc = "safe_distinct_count"
    /\ \E job \in {"ok", "fail"} :
         LET r == safe_distinct_count(df, "customer_id", job) IN
         /\ distinctResult' = r
         /\ dfOps' = dfOps \o r.ops
         /\ IF r.kind = "return" THEN
                /\ stdout' = stdout \o r.out
                             \o << <<"Unique customers count:", ToString(r.value)>> >>
                /\ pc' = "setCheckpointDir"
                /\ UNCHANGED <<exitCode, uncaught>>
            ELSE
                /\ Crash(r.exc)
                /\ stdout' = stdout \o r.out
    /\ UNCHANGED <<session, readOutcome, readResult, df, sqlOutcome, sqlResult, result>>
    /\ UNCHANGED etlVars

\* spark.sparkContext.setCheckpointDir("/tmp/spark_checkpoints")
SetCheckpointDir ==
    /\ pc = "setCheckpointDir"
    /\ LibCall("checkpoint", "setCheckpointDir")

\* df_checkpointed = df.checkpoint(eager=True)
Checkpoint ==
    /\ pc = "checkpoint"
    /\ LibCall("count", "checkpoint")

\* print(f"Checkpointed DataFrame count: {df_checkpointed.count()}")
CountCheckpointed ==
    /\ pc = "count"
    /\ \/ /\ dfOps' = Append(dfOps, "count")
          /\ stdout' = Append(stdout, <<"Checkpointed DataFrame count:", ToString(count(df))>>)
          /\ pc' = "createOrReplaceTempView"
          /\ UNCHANGED <<exitCode, uncaught>>
       \/ /\ Crash(JobFailure)
          /\ UNCHANGED <<dfOps, stdout>>
    /\ UNCHANGED <<session, readOutcome, readResult, df, distinctResult, sqlOutcome,
                   sqlResult, result>>
    /\ UNCHANGED etlVars

\* df.createOrReplaceTempView("customers")
CreateOrReplaceTempView ==
    /\ pc = "createOrReplaceTempView"
    /\ LibCall("run_sql_query", "createOrReplaceTempView")

\* A call of run_sql_query from main(); keep says whether main() assigns what
\* it returns to result.
CallRunSqlQuery(next, keep) ==
    /\ \E o \in SqlOutcomes(df) :
         LET r == run_sql_query(o) IN
         /\ sqlOutcome' = o
         /\ sqlResult' = r
         /\ stdout' = stdout \o r.out
         /\ IF r.kind = "return" THEN
                /\ result' = IF keep THEN r.value ELSE result
                /\ pc' = next
                /\ UNCHANGED <<exitCode, uncaught>>
            ELSE
                /\ Crash(r.exc)
                /\ UNCHANGED result
    /\ UNCHANGED <<session, readOutcome, readResult, df, distinctResult, dfOps>>
    /\ UNCHANGED etlVars

\* result = run_sql_query(spark, query)
RunSqlQuery ==
    /\ pc = "run_sql_query"
    /\ CallRunSqlQuery("if_result", TRUE)

\* if result: result.show(5); a DataFrame is true, None is false.
ResultShow ==
    /\ pc = "if_result"
    /\ IF result # None THEN
           \/ /\ dfOps' = Append(dfOps, "result.show")
              /\ pc' = "run_bad_query"
              /\ UNCHANGED <<exitCode, uncaught>>
           \/ /\ Crash(JobFailure)
              /\ UNCHANGED dfOps
       ELSE
           /\ pc' = "run_bad_query"
           /\ UNCHANGED <<exitCode, uncaught, dfOps>>
    /\ UNCHANGED <<session, readOutcome, readResult, df, distinctResult, sqlOutcome,
                   sqlResult, result, stdout>>
    /\ UNCHANGED etlVars

\* _ = run_sql_query(spark, bad_query)
RunBadQuery ==
    /\ pc = "run_bad_query"
    /\ CallRunSqlQuery("stop", FALSE)

\* spark.stop() at the end of main(); the process then ends with status 0.
Stop ==
    /\ pc = "stop"
    /\ session' = "stopped"
    /\ exitCode' = 0
    /\ pc' = "exited"
    /\ UNCHANGED <<readOutcome, readResult, df, distinctResult, sqlOutcome, sqlResult,
                   result, uncaught, stdout, dfOps>>
    /\ UNCHANGED etlVars

\* ============================================================ Employee_ETL.py
\* ------------------------------------------------------------ the CSV files
\* A salary cell of a CSV file: a number, a text that is no number, or nothing.
\* The numbers are such that every median of them is a whole number.
RawSalaries == {"10", "30", "n/a", Null}
\* The header of a file: the spellings the rename map knows, and one it does not.
Headers == {<<"empID", "sal", "dept">>, <<"id", "salary", "dept">>, <<"id", "wage", "dept">>}

\* The row of a file: its id tells the file and the position, so that every
\* row of the input is told apart in the output.
CsvRow(h, f, i, sal) == [k \in Range(h) |-> IF k = h[1] THEN 10 * f + i
                                            ELSE IF k = h[2] THEN sal ELSE "D"]
CsvFile(h, f, sals) == [columns |-> h, rows |-> [i \in 1..Len(sals) |-> CsvRow(h, f, i, sals[i])]]
\* The files that can be the f-th one discovered, with k data rows.
CsvFiles(f, k) == {CsvFile(h, f, sals) : h \in Headers, sals \in [1..k -> RawSalaries]}

RECURSIVE DisksWith(_, _)
\* The directories of n files with at most r data rows together.
DisksWith(n, r) ==
    IF n = 0 THEN {<<>>}
    ELSE UNION {{Append(d, f) : d \in DisksWith(n - 1, r - k), f \in CsvFiles(n, k)} : k \in 0..r}

Disks == UNION {DisksWith(n, MaxCsvRows) : n \in 0..MaxFiles}

NotWritten == [exists |-> FALSE]

\* ------------------------------------------------------------------- pandas
\* A float cell: a number or NaN.
Num(n) == [isnan |-> FALSE, v |-> n]
NaN == [isnan |-> TRUE, v |-> 0]

\* pd.to_numeric(cell, errors='coerce') on one cell.
to_numeric(cell) ==
    CASE cell = "10" -> Num(10)
      [] cell = "30" -> Num(30)
      [] OTHER -> NaN

\* The columns argument of df.rename.
RenameMap(c) ==
    CASE c = "empID" -> "Employee_ID"
      [] c = "id" -> "Employee_ID"
      [] c = "sal" -> "Salary"
      [] c = "salary" -> "Salary"
      [] c = "dept" -> "Department"
      [] OTHER -> c

\* df.rename(columns=..., inplace=True): the frame with its columns renamed.
rename(d) ==
    [columns |-> [i \in 1..Len(d.columns) |-> RenameMap(d.columns[i])],
     rows |-> [i \in 1..Len(d.rows) |->
                 [k \in {RenameMap(c) : c \in Range(d.columns)} |->
                    d.rows[i][CHOOSE c \in Range(d.columns) : RenameMap(c) = k]]]]

\* df['Salary'] = pd.to_numeric(df['Salary'], errors='coerce')
coerce(d) ==
    [columns |-> d.columns,
     rows |-> [i \in 1..Len(d.rows) |-> [d.rows[i] EXCEPT !["Salary"] = to_numeric(@)]]]

RECURSIVE Insert(_, _)
\* The sorted sequence s with x put at its place.
Insert(x, s) ==
    IF s = <<>> THEN <<x>>
    ELSE IF x <= Head(s) THEN <<x>> \o s
    ELSE <<Head(s)>> \o Insert(x, Tail(s))

RECURSIVE SortedNumbers(_)
\* The numbers of the float cells cells (NaN skipped), in ascending order.
SortedNumbers(cells) ==
    IF cells = <<>> THEN <<>>
    ELSE IF Head(cells).isnan THEN SortedNumbers(Tail(cells))
    ELSE Insert(Head(cells).v, SortedNumbers(Tail(cells)))

\* Series.median(): the middle of the numbers, NaN skipped; NaN when there is none.
median(cells) ==
    LET s == SortedNumbers(cells)
        n == Len(s)
    IN  IF n = 0 THEN NaN
        ELSE IF n % 2 = 1 THEN Num(s[(n + 1) \div 2])
        ELSE Num((s[n \div 2] + s[n \div 2 + 1]) \div 2)

Column(d, c) == [i \in 1..Len(d.rows) |-> d.rows[i][c]]

\* Series.fillna(value): every NaN cell replaced by value (a NaN value fills nothing).
fillna(cells, value) ==
    [i \in 1..Len(cells) |-> IF cells[i].isnan /\ ~value.isnan THEN value ELSE cells[i]]

\* df['Salary'].fillna(df['Salary'].median(), inplace=True): an in-place fill of
\* the Series df['Salary'] answers. Without Copy-on-Write that Series is the
\* frame's own column and the frame is filled; with Copy-on-Write (the default
\* from pandas 3.0) it is a temporary object and the frame keeps its NaN.
fillna_inplace(d, copy_on_write) ==
    IF copy_on_write THEN d
    ELSE LET filled == fillna(Column(d, "Salary"), median(Column(d, "Salary")))
         IN  [columns |-> d.columns,
              rows |-> [i \in 1..Len(d.rows) |-> [d.rows[i] EXCEPT !["Salary"] = filled[i]]]]

RECURSIVE UnionColumns(_, _)
\* The columns of the frames, each once, in the order they first appear.
UnionColumns(frames, acc) ==
    IF frames = <<>> THEN acc
    ELSE UnionColumns(Tail(frames),
                      acc \o SelectSeq(Head(frames).columns, LAMBDA c : c \notin Range(acc)))

RECURSIVE ConcatRows(_, _)
\* The rows of the frames one frame after the other, each row widened to cols.
ConcatRows(frames, cols) ==
    IF frames = <<>> THEN <<>>
    ELSE [i \in 1..Len(Head(frames).rows) |->
            [k \in Range(cols) |-> IF k \in DOMAIN Head(frames).rows[i]
                                   THEN Head(frames).rows[i][k] ELSE NaN]]
         \o ConcatRows(Tail(frames), cols)

Reverse(s) == [i \in 1..Len(s) |-> s[Len(s) + 1 - i]]

\* pd.concat putting the last frame first.
concat_last_first(frames) ==
    IF frames = <<>>
    THEN Raise([cls |-> "ValueError", msg |-> <<"No objects to concatenate">>, hasDesc |-> FALSE],
               <<>>, <<>>)
    ELSE Return([columns |-> UnionColumns(frames, <<>>),
                 rows |-> ConcatRows(Reverse(frames), UnionColumns(frames, <<>>))], <<>>, <<>>)

\* pd.concat answering an empty frame for an empty list.
concat_empty_allowed(frames) ==
    Return([columns |-> UnionColumns(frames, <<>>),
            rows |-> ConcatRows(frames, UnionColumns(frames, <<>>))], <<>>, <<>>)

\* pd.concat(frames, ignore_index=True): ValueError on an empty list.
concat(frames) ==
    IF frames = <<>>
    THEN Raise([cls |-> "ValueError", msg |-> <<"No objects to concatenate">>, hasDesc |-> FALSE],
               <<>>, <<>>)
    ELSE Return([columns |-> UnionColumns(frames, <<>>),
                 rows |-> ConcatRows(frames, UnionColumns(frames, <<>>))], <<>>, <<>>)

\* Line 23 made tolerant: a frame without a Salary column gets an empty one.
coerce_step_defaulting(d) ==
    IF "Salary" \in Range(d.columns)
    THEN Return(coerce(d), <<>>, <<>>)
    ELSE Return([columns |-> Append(d.columns, "Salary"),
                 rows |-> [i \in 1..Len(d.rows) |->
                             [k \in DOMAIN d.rows[i] \cup {"Salary"} |->
                                IF k = "Salary" THEN NaN ELSE d.rows[i][k]]]], <<>>, <<>>)

\* Line 23 on the loop's frame: KeyError when the frame has no Salary column.
coerce_step(d) ==
    IF "Salary" \in Range(d.columns)
    THEN Return(coerce(d), <<>>, <<>>)
    ELSE Raise([cls |-> "KeyError", msg |-> <<"Salary">>, hasDesc |-> FALSE], <<>>, <<>>)

\* -------------------------------------------------------------- the script
\* An exception ends the script: nothing catches any.
Abort(e) ==
    /\ etlError' = e
    /\ epc' = "aborted"

\* The OSError of a file that cannot be opened.
IOFailure == [cls |-> "OSError", msg |-> <<"cannot open file">>, hasDesc |-> FALSE]

\* files = glob.glob("./employee_data/*.csv")
Glob ==
    /\ epc = "glob"
    /\ files' = [i \in 1..Len(disk) |-> i]
    /\ epc' = "read_csv"
    /\ UNCHANGED <<cow, disk, dataframes, standardized_dfs, loopIdx, master_df, written, etlError>>
    /\ UNCHANGED ehVars

\* dataframes = [pd.read_csv(file) for file in files]; the read of a file may fail.
ReadAll ==
    /\ epc = "read_csv"
    /\ \/ /\ dataframes' = [i \in 1..Len(files) |-> disk[files[i]]]
          /\ loopIdx' = 1
          /\ epc' = "for"
          /\ UNCHANGED etlError
       \/ /\ files # <<>>
          /\ Abort(IOFailure)
          /\ UNCHANGED <<dataframes, loopIdx>>
    /\ UNCHANGED <<cow, disk, files, standardized_dfs, master_df, written>>
    /\ UNCHANGED ehVars

\* for df in dataframes: the next frame, or the end of the loop.
For ==
    /\ epc = "for"
    /\ epc' = IF loopIdx <= Len(dataframes) THEN "rename" ELSE "concat"
    /\ UNCHANGED <<cow, disk, files, dataframes, standardized_dfs, loopIdx, master_df,
                   written, etlError>>
    /\ UNCHANGED ehVars

\* df.rename(columns={...}, inplace=True)
Rename ==
    /\ epc = "rename"
    /\ dataframes' = [dataframes EXCEPT ![loopIdx] = rename(@)]
    /\ epc' = "to_numeric"
    /\ UNCHANGED <<cow, disk, files, standardized_dfs, loopIdx, master_df, written, etlError>>
    /\ UNCHANGED ehVars

\* df['Salary'] = pd.to_numeric(df['Salary'], errors='coerce')
ToNumeric ==
    /\ epc = "to_numeric"
    /\ LET r == coerce_step(dataframes[loopIdx]) IN
       IF r.kind = "return" THEN
           /\ dataframes' = [dataframes EXCEPT ![loopIdx] = r.value]
           /\ epc' = "fillna"
           /\ UNCHANGED etlError
       ELSE
           /\ Abort(r.exc)
           /\ UNCHANGED dataframes
    /\ UNCHANGED <<cow, disk, files, standardized_dfs, loopIdx, master_df, written>>
    /\ UNCHANGED ehVars

\* df['Salary'].fillna(df['Salary'].median(), inplace=True)
Fillna ==
    /\ epc = "fillna"
    /\ dataframes' = [dataframes EXCEPT ![loopIdx] = fillna_inplace(@, cow)]
    /\ epc' = "append"
    /\ UNCHANGED <<cow, disk, files, standardized_dfs, loopIdx, master_df, written, etlError>>
    /\ UNCHANGED ehVars

\* standardized_dfs.append(df): the list holds the frame itself, here its index
\* in dataframes.
AppendDf ==
    /\ epc = "append"
    /\ standardized_dfs' = Append(standardized_dfs, loopIdx)
    /\ loopIdx' = loopIdx + 1
    /\ epc' = "for"
    /\ UNCHANGED <<cow, disk, files, dataframes, master_df, written, etlError>>
    /\ UNCHANGED ehVars

\* master_df = pd.concat(standardized_dfs, ignore_index=True)
Concat ==
    /\ epc = "concat"
    /\ LET r == concat([i \in 1..Len(standardized_dfs) |-> dataframes[standardized_dfs[i]]]) IN
       IF r.kind = "return" THEN
           /\ master_df' = r.value
           /\ epc' = "to_csv"
           /\ UNCHANGED etlError
       ELSE
           /\ Abort(r.exc)
           /\ UNCHANGED master_df
    /\ UNCHANGED <<cow, disk, files, dataframes, standardized_dfs, loopIdx, written>>
    /\ UNCHANGED ehVars

\* master_df.to_csv("clean_employee_master.csv", index=False) and the print;
\* the output file may fail to open, and then nothing is written.
ToCsv ==
    /\ epc = "to_csv"
    /\ \/ /\ written' = master_df
          /\ epc' = "done"
          /\ UNCHANGED etlError
       \/ /\ Abort(IOFailure)
          /\ UNCHANGED written
    /\ UNCHANGED <<cow, disk, files, dataframes, standardized_dfs, loopIdx, master_df>>
    /\ UNCHANGED ehVars

\* Employee_ETL.py at rest, for the runs of the other script.
IdleETL ==
    /\ epc = "idle"
    /\ cow = FALSE
    /\ disk = <<>>
    /\ files = <<>>
    /\ dataframes = <<>>
    /\ standardized_dfs = <<>>
    /\ loopIdx = 0
    /\ master_df = NoDf
    /\ written = NotWritten
    /\ etlError = NoExc

\* ErrorHandling.py at rest, for the runs of the other script.
IdleErrorHandling ==
    /\ pc = "idle"
    /\ session = "none"
    /\ exitCode = Running
    /\ readOutcome = NoCall
    /\ readResult = NoCall
    /\ df = NoDf
    /\ distinctResult = NoCall
    /\ sqlOutcome = NoCall
    /\ sqlResult = NoCall
    /\ result = None
    /\ uncaught = NoExc
    /\ stdout = <<>>
    /\ dfOps = <<>>

\* The start of Employee_ETL.py: any directory content, either pandas mode.
InitETL ==
    /\ epc = "glob"
    /\ cow \in BOOLEAN
    /\ disk \in Disks
    /\ files = <<>>
    /\ dataframes = <<>>
    /\ standardized_dfs = <<>>
    /\ loopIdx = 0
    /\ master_df = NoDf
    /\ written = NotWritten
    /\ etlError = NoExc
    /\ IdleErrorHandling

\* The start of ErrorHandling.py: main() is about to run.
InitErrorHandling ==
    /\ pc = "create_spark_session"
    /\ session = "none"
    /\ exitCode = Running
    /\ readOutcome = NoCall
    /\ readResult = NoCall
    /\ df = NoDf
    /\ distinctResult = NoCall
    /\ sqlOutcome = NoCall
    /\ sqlResult = NoCall
    /\ result = None
    /\ uncaught = NoExc
    /\ stdout = <<>>
    /\ dfOps = <<>>
    /\ IdleETL

\* ----------------------------------------------------------- specifications
\* A run of ErrorHandling.py.
NextErrorHandling ==
    \/ CreateSparkSession
    \/ ReadCsv
    \/ PrintSchema
    \/ Show
    \/ SafeDistinctCount
    \/ SetCheckpointDir
    \/ Checkpoint
    \/ CountCheckpointed
    \/ CreateOrReplaceTempView
    \/ RunSqlQuery
    \/ ResultShow
    \/ RunBadQuery
    \/ Stop

SpecErrorHandling == InitErrorHandling /\ [][NextErrorHandling]_vars

\* A run of Employee_ETL.py.
NextETL ==
    \/ Glob
    \/ ReadAll
    \/ For
    \/ Rename
    \/ ToNumeric
    \/ Fillna
    \/ AppendDf
    \/ Concat
    \/ ToCsv

SpecETL == InitETL /\ [][NextETL]_vars


\* ==================================================================== claims
\* ------------------------------------------------------------ ErrorHandling.py
\* The process ended after the session was created.
ExitedWithSession == pc = "exited" /\ session # "none"

\* C1: in every run in which the session was created, the session is stopped
\* (spark.stop() was called) by the time the process has ended, whatever the
\* exit path: normal completion, a failed read, a failure of a later step.
C1_SessionReleasedOnEveryExit == ExitedWithSession => session = "stopped"

\* The read failed because the path does not exist: the reader's failure says so.
PathDoesNotExist(o) ==
    o.kind = "raise" /\ Contains(o.exc.msg, <<"Path does not exist:">>)

\* The read failed because the session is stopped.
SessionAlreadyStopped(o) ==
    o.kind = "raise" /\ Contains(o.exc.msg, StoppedText)

\* C2: the exit status tells the first failing step: 1 when the session could not
\* be created (and then no read was attempted), 2 when the read failed because
\* the path does not exist, 3 when the read failed for another reason, 0 when
\* main() ran to its end, absorbed query failures included.
C2_ExitCodeByFirstFailure ==
    pc = "exited" =>
        /\ (session = "none" => exitCode = 1 /\ readOutcome = NoCall)
        /\ (PathDoesNotExist(readOutcome) => exitCode = 2)
        /\ (readOutcome.kind = "raise" /\ ~PathDoesNotExist(readOutcome) => exitCode = 3)
        /\ (readOutcome.kind = "return" /\ uncaught = NoExc => exitCode = 0)

\* The classes read_csv_handle_exceptions raises for its two classified conditions.
SessionStoppedKind == "Exception"
PathNotFoundKind == "FileNotFoundError"

\* C3: a read that fails on a stopped session fails with the SessionStopped kind
\* and the remediation message, one that fails on a missing path fails with the
\* PathNotFound kind carrying file_path, and a handler for either kind catches
\* the failures of that condition and no other failure.
C3_TwoDistinguishableKinds ==
    readResult.kind = "raise" =>
        /\ (SessionAlreadyStopped(readOutcome) =>
               readResult.exc.msg = <<"Spark session has been stopped. Please restart it.">>)
        /\ (PathDoesNotExist(readOutcome) => Contains(readResult.exc.msg, <<file_path>>))
        /\ (IsInstance(readResult.exc.cls, SessionStoppedKind) <=> SessionAlreadyStopped(readOutcome))
        /\ (IsInstance(readResult.exc.cls, PathNotFoundKind) <=> PathDoesNotExist(readOutcome))

\* safe_distinct_count was called on a dataset without the column.
ColumnAbsent == distinctResult # NoCall /\ "customer_id" \notin Range(df.columns)
ColumnPresent == distinctResult # NoCall /\ "customer_id" \in Range(df.columns)

\* C4 as stated: safe_distinct_count never raises, and without the column it
\* returns 0 with a warning and runs nothing on the dataset.
C4_NeverFails ==
    distinctResult # NoCall =>
        /\ distinctResult.kind = "return"
        /\ (ColumnAbsent => /\ distinctResult.value = 0
                            /\ distinctResult.out # <<>>
                            /\ distinctResult.ops = <<>>)

\* C4 amended: without the column safe_distinct_count returns 0, prints the
\* warning, runs nothing on the dataset and does not raise; with the column it
\* prints nothing and either returns a count or lets the failure of the Spark
\* job it started propagate.
C4_NeverFailsOnMissingColumn ==
    /\ ColumnAbsent =>
          /\ distinctResult.kind = "return"
          /\ distinctResult.value = 0
          /\ distinctResult.out = << <<"Warning: Column", "customer_id", "not found. Returning count=0.">> >>
          /\ distinctResult.ops = <<>>
    /\ ColumnPresent =>
          /\ distinctResult.out = <<>>
          /\ distinctResult.kind = "raise" => distinctResult.exc = JobFailure
          /\ distinctResult.kind = "return" => distinctResult.value \in 0..Len(df.rows)

\* A dataset with rows but no customer_id column was counted.
C4_Witness == ColumnAbsent /\ Len(df.rows) > 0 /\ distinctResult.kind = "return"

\* The values of customer_id in df.
CustomerIds == {df.rows[i]["customer_id"] : i \in 1..Len(df.rows)}

\* C5 as stated: with the column present the count is the number of distinct
\* non-null values ({a, a, null} gives 1, nulls only give 0).
C5_DistinctNonNull ==
    ColumnPresent /\ distinctResult.kind = "return" =>
        distinctResult.value = Cardinality(CustomerIds \ {Null})

\* C5 amended: with the column present the count is the number of distinct
\* values, null counting as one value ({a, a, null} gives 2, nulls only give 1).
C5_DistinctWithNull ==
    ColumnPresent /\ distinctResult.kind = "return" =>
        distinctResult.value = Cardinality(CustomerIds)

\* A column holding a, a and null was counted.
C5_Witness ==
    /\ ColumnPresent
    /\ distinctResult.kind = "return"
    /\ Len(df.rows) = 3
    /\ CustomerIds = {"a", Null}

\* C6: whenever spark.sql fails, run_sql_query prints a diagnostic holding the
\* failure's description and returns None; the failure does not leave it.
C6_QueryFailureAbsorbed ==
    sqlOutcome.kind = "raise" =>
        /\ sqlResult.kind = "return"
        /\ sqlResult.value = None
        /\ sqlResult.out = << <<"SQL error:">> \o sqlOutcome.exc.msg >>

\* ------------------------------------------------------------ Employee_ETL.py
RECURSIVE Offset(_)
\* The number of rows of the files discovered before the f-th.
Offset(f) == IF f = 1 THEN 0 ELSE Offset(f - 1) + Len(disk[f - 1].rows)

TotalRows == Offset(Len(disk) + 1)

\* The salary cells of the f-th file as the file holds them.
RawColumn(f) == [i \in 1..Len(disk[f].rows) |-> disk[f].rows[i][disk[f].columns[2]]]

\* The median of the numeric salaries of the f-th file.
FileMedian(f) == median([i \in 1..Len(disk[f].rows) |-> to_numeric(RawColumn(f)[i])])

\* C7: in the output every row whose salary is a number in its file keeps it,
\* and every row whose salary is no number or is absent holds a number, the
\* median of the numeric salaries of its own file; so for every file.
C7_MissingSalaryGetsFileMedian ==
    written # NotWritten =>
        \A f \in 1..Len(disk) : \A i \in 1..Len(disk[f].rows) :
            LET out == written.rows[Offset(f) + i]["Salary"] IN
            IF to_numeric(RawColumn(f)[i]).isnan
            THEN ~out.isnan /\ out = FileMedian(f)
            ELSE out = to_numeric(RawColumn(f)[i])

\* C8: the output holds the rows of all the discovered files, each once, the
\* files in discovery order and the rows of a file in their order.
C8_RowsInDiscoveryOrder ==
    written # NotWritten =>
        /\ Len(written.rows) = TotalRows
        /\ \A f \in 1..Len(disk) : \A i \in 1..Len(disk[f].rows) :
               written.rows[Offset(f) + i]["Employee_ID"] = disk[f].rows[i][disk[f].columns[1]]

\* Two files with a row each were merged.
C8_Witness ==
    /\ written # NotWritten
    /\ Len(disk) = 2
    /\ \A f \in 1..2 : Len(disk[f].rows) = 1

\* C9: with no file matching the pattern the script always ends the same way:
\* pd.concat raises ValueError and the output file is never written.
C9_ZeroFilesAlwaysFails ==
    disk = <<>> =>
        /\ written = NotWritten
        /\ epc \in {"done", "aborted"} => epc = "aborted" /\ etlError.cls = "ValueError"

\* The script ended on an empty directory.
C9_Witness == disk = <<>> /\ epc = "aborted"

\* The float cells a coerced salary can be.
FloatCells == {NaN, Num(10), Num(20), Num(30)}

\* C10: the output is written only once every discovered file was read, renamed,
\* coerced and imputed and no step failed; a failure ends the script with the
\* output unwritten.
C10_OutputOnlyAfterAllFiles ==
    /\ written # NotWritten =>
          /\ etlError = NoExc
          /\ epc = "done"
          /\ Len(dataframes) = Len(disk)
          /\ standardized_dfs = [i \in 1..Len(disk) |-> i]
          /\ \A f \in 1..Len(disk) : "Salary" \in Range(rename(disk[f]).columns)
          /\ Len(written.rows) = TotalRows
          /\ \A i \in 1..Len(written.rows) : written.rows[i]["Salary"] \in FloatCells
    /\ etlError # NoExc => written = NotWritten /\ epc = "aborted"

\* The second of two files has no salary column: the script stopped there.
C10_Witness ==
    /\ epc = "aborted"
    /\ etlError.cls = "KeyError"
    /\ standardized_dfs = <<1>>
    /\ written = NotWritten
====
